---- MODULE Spec2Model ----
(***************************************************************************)
(* A model of DAG_utils.py: the recursive DFS cycle check, the frontier    *)
(* topological sort and the helpers they use, driven the way test.py's     *)
(* differential test drives them: is_graph_acylic_DFS(graph) first, then   *)
(* is_graph_acyclic_toplogical(graph) on the same graph.                   *)
(*                                                                         *)
(* Dictionaries are functions from their key set to sets of nodes.  The    *)
(* caller's dictionary and the defaultdict copy each call makes are two    *)
(* objects of a small heap; the local name edge_dictionary is a reference  *)
(* into it, so that a lookup which inserts a missing key acts on whatever  *)
(* object the name is bound to.                                            *)
(***************************************************************************)
EXTENDS Integers, Sequences, FiniteSets, TLC

\* Bounds of the model: graphs over the nodes 0 .. MaxNodes-1 with at most
\* MaxEdges dependency edges.
MaxNodes == 3
MaxEdges == 4

Nodes == 0 .. (MaxNodes - 1)

VARIABLES
    graph0,                       \* the graph as the caller built it
    heap,                         \* object name -> dictionary
    edge_dictionary,              \* the object the local name is bound to
    pc,                           \* position of the driver
    all_nodes_set,
    \* is_graph_acylic_DFS
    starts,                       \* start nodes all(map(...)) has not drawn yet
    stack,                        \* call chain of is_graph_acylic_helper
    set_seen_so_far,
    unwinding,                    \* a helper call has returned False
    dfs_result,
    \* topological_sort
    sorted_ordering,
    inverted_edge_dict,
    node_to_is_added,
    node_to_num_dependencies_met,
    frontier,
    current_node,                 \* {} until the loop pops; then {the node last popped}
    sort_result

vars == <<graph0, heap, edge_dictionary, pc, all_nodes_set, starts, stack,
          set_seen_so_far, unwinding, dfs_result, sorted_ordering,
          inverted_edge_dict, node_to_is_added, node_to_num_dependencies_met,
          frontier, current_node, sort_result>>

dfsVars == <<starts, stack, set_seen_so_far, unwinding, dfs_result>>
sortVars == <<sorted_ordering, inverted_edge_dict, node_to_is_added,
              node_to_num_dependencies_met, frontier, current_node, sort_result>>

EmptyDict == [k \in {} |-> {}]
Pending == [kind |-> "pending", ordering |-> <<>>]

----------------------------------------------------------------------------
(* Dictionaries *)

\* The (from_node, to_node) pairs of dictionary d, as items() yields them.
Edges(d) == {e \in (DOMAIN d) \X Nodes : e[2] \in d[e[1]]}
NumEdges(d) == Cardinality(Edges(d))

\* Every dictionary a caller can pass: any key set, any dependency sets.
Graphs == {g \in UNION {[K -> SUBSET Nodes] : K \in SUBSET Nodes} :
              NumEdges(g) <= MaxEdges}

\* d[k] of a defaultdict(set): the value read ...
DefaultGet(d, k) == IF k \in DOMAIN d THEN d[k] ELSE {}
\* ... and the dictionary afterwards (a missing key is inserted with set()).
DefaultTouch(d, k) == IF k \in DOMAIN d THEN d ELSE d @@ (k :> {})

RECURSIVE DefaultTouchAll(_, _)
DefaultTouchAll(d, ks) ==
    IF ks = {} THEN d
    ELSE LET k == CHOOSE x \in ks : TRUE
         IN DefaultTouchAll(DefaultTouch(d, k), ks \ {k})

\* edge_dictionary = defaultdict(set, edge_dictionary): the name is rebound
\* to a fresh copy.
WrapRefAliased(ref) == ref
WrapRef(ref) == "local"

edge_dict_to_node_set_keys(d) == DOMAIN d
edge_dict_to_node_set(d) == DOMAIN d \cup UNION {d[k] : k \in DOMAIN d}

\* One pass of the inner loop body of invert_edge_dict.
InvertInsertOverwrite(new_dict, to_node, from_node) ==
    IF to_node \in DOMAIN new_dict
    THEN [new_dict EXCEPT ![to_node] = {from_node}]
    ELSE new_dict @@ (to_node :> {from_node})
InvertInsert(new_dict, to_node, from_node) ==
    IF to_node \in DOMAIN new_dict
    THEN [new_dict EXCEPT ![to_node] = @ \cup {from_node}]
    ELSE new_dict @@ (to_node :> {from_node})

RECURSIVE InvertFold(_, _)
InvertFold(new_dict, edges) ==
    IF edges = {} THEN new_dict
    ELSE LET e == CHOOSE x \in edges : TRUE
         IN InvertFold(InvertInsert(new_dict, e[2], e[1]), edges \ {e})

invert_edge_dict(d) == InvertFold(EmptyDict, Edges(d))

ED == heap[edge_dictionary]

----------------------------------------------------------------------------
\* The driver is about to make its first call, at position p, on any graph.
InitAt(p) ==
    /\ graph0 \in Graphs
    /\ heap = ("caller" :> graph0)
    /\ edge_dictionary = "caller"
    /\ pc = p
    /\ all_nodes_set = {}
    /\ starts = {}
    /\ stack = <<>>
    /\ set_seen_so_far = {}
    /\ unwinding = FALSE
    /\ dfs_result = TRUE
    /\ sorted_ordering = <<>>
    /\ inverted_edge_dict = EmptyDict
    /\ node_to_is_added = EmptyDict
    /\ node_to_num_dependencies_met = EmptyDict
    /\ frontier = {}
    /\ current_node = {}
    /\ sort_result = Pending

\* test_cycle_check_random: is_graph_acylic_DFS(graph), then
\* is_graph_acyclic_toplogical(graph).
Init == InitAt("test")

\* test_topolgical_sort: topological_sort(graph) alone.
SortInit == InitAt("between")

\* The driver's positions at which is_graph_acylic_DFS has returned.
DFSReturned == pc \in {"between", "sort", "done"}

\* Names local to a call are dropped when it returns; the caller's object
\* stays.
HeapAfterReturn(h) == [r \in {"caller"} |-> h[r]]

----------------------------------------------------------------------------
(* is_graph_acylic_DFS *)

Frame(n) == [node |-> n, body |-> FALSE, todo |-> {}]
Top == stack[Len(stack)]
Pop(s) == SubSeq(s, 1, Len(s) - 1)

\* set_seen_so_far.add(current_node)
SeenAfterEntryNoAdd(seen, node) == seen
SeenAfterEntry(seen, node) == seen \cup {node}

\* set_seen_so_far.remove(current_node)
SeenAfterReturnNoRemove(seen, node) == seen
SeenAfterReturn(seen, node) == seen \ {node}

\* Lines 25 and 46: wrap the argument, collect the nodes; all(map(...)) has
\* yet to draw its first start node.
DFSCall ==
    /\ pc = "test"
    /\ LET ref == WrapRef(edge_dictionary)
           h == [r \in {"caller", "local"} |-> heap["caller"]]
       IN /\ edge_dictionary' = ref
          /\ heap' = h
          /\ all_nodes_set' = edge_dict_to_node_set(h[ref])
          /\ starts' = edge_dict_to_node_set(h[ref])
    /\ pc' = "dfs"
    /\ stack' = <<>>
    /\ set_seen_so_far' = {}
    /\ unwinding' = FALSE
    /\ UNCHANGED <<graph0, dfs_result>>
    /\ UNCHANGED sortVars

\* all(...) draws the next start node: is_graph_acylic_helper(set(), start).
DFSNextStart ==
    /\ pc = "dfs" /\ stack = <<>> /\ ~unwinding
    /\ \E start_node \in starts :
          /\ starts' = starts \ {start_node}
          /\ stack' = <<Frame(start_node)>>
    /\ set_seen_so_far' = {}
    /\ UNCHANGED <<graph0, heap, edge_dictionary, pc, all_nodes_set,
                   unwinding, dfs_result>>
    /\ UNCHANGED sortVars

\* Lines 36-37: the node is on the active path; return False.
HelperRepeat ==
    /\ pc = "dfs" /\ stack # <<>> /\ ~unwinding
    /\ ~Top.body
    /\ Top.node \in set_seen_so_far
    /\ stack' = Pop(stack)
    /\ unwinding' = TRUE
    /\ UNCHANGED <<graph0, heap, edge_dictionary, pc, all_nodes_set, starts,
                   set_seen_so_far, dfs_result>>
    /\ UNCHANGED sortVars

\* Lines 38-39: add the node, look its dependency set up and start the loop.
HelperEnter ==
    /\ pc = "dfs" /\ stack # <<>> /\ ~unwinding
    /\ ~Top.body
    /\ Top.node \notin set_seen_so_far
    /\ set_seen_so_far' = SeenAfterEntry(set_seen_so_far, Top.node)
    /\ heap' = [heap EXCEPT ![edge_dictionary] = DefaultTouch(@, Top.node)]
    /\ stack' = [stack EXCEPT ![Len(stack)] =
                    [node |-> Top.node, body |-> TRUE,
                     todo |-> DefaultGet(ED, Top.node)]]
    /\ UNCHANGED <<graph0, edge_dictionary, pc, all_nodes_set, starts,
                   unwinding, dfs_result>>
    /\ UNCHANGED sortVars

\* Lines 39-40: the loop draws a next_node and calls the helper on it.
HelperRecurse ==
    /\ pc = "dfs" /\ stack # <<>> /\ ~unwinding
    /\ Top.body
    /\ \E next_node \in Top.todo :
          stack' = Append([stack EXCEPT ![Len(stack)].todo = @ \ {next_node}],
                          Frame(next_node))
    /\ UNCHANGED <<graph0, heap, edge_dictionary, pc, all_nodes_set, starts,
                   set_seen_so_far, unwinding, dfs_result>>
    /\ UNCHANGED sortVars

\* Lines 40-41: the call beneath returned False; so does this one.
HelperPropagate ==
    /\ pc = "dfs" /\ stack # <<>> /\ unwinding
    /\ stack' = Pop(stack)
    /\ UNCHANGED <<graph0, heap, edge_dictionary, pc, all_nodes_set, starts,
                   set_seen_so_far, unwinding, dfs_result>>
    /\ UNCHANGED sortVars

\* Lines 42-43: the loop is exhausted; remove the node and return True.
HelperReturn ==
    /\ pc = "dfs" /\ stack # <<>> /\ ~unwinding
    /\ Top.body
    /\ Top.todo = {}
    /\ set_seen_so_far' = SeenAfterReturn(set_seen_so_far, Top.node)
    /\ stack' = Pop(stack)
    /\ UNCHANGED <<graph0, heap, edge_dictionary, pc, all_nodes_set, starts,
                   unwinding, dfs_result>>
    /\ UNCHANGED sortVars

\* Line 47: all(...) ends at the first False, or with True when every start
\* node has been tried.
DFSReturn ==
    /\ pc = "dfs" /\ stack = <<>>
    /\ unwinding \/ starts = {}
    /\ dfs_result' = ~unwinding
    /\ pc' = "between"
    /\ heap' = HeapAfterReturn(heap)
    /\ edge_dictionary' = "caller"
    /\ all_nodes_set' = {}
    /\ starts' = {}
    /\ set_seen_so_far' = {}
    /\ unwinding' = FALSE
    /\ UNCHANGED <<graph0, stack>>
    /\ UNCHANGED sortVars

DFSNext ==
    \/ DFSCall
    \/ DFSNextStart
    \/ HelperRepeat
    \/ HelperEnter
    \/ HelperRecurse
    \/ HelperPropagate
    \/ HelperReturn
    \/ DFSReturn

----------------------------------------------------------------------------
(* topological_sort *)

None == [kind |-> "None", ordering |-> <<>>]
List(seq) == [kind |-> "list", ordering |-> seq]

\* Lines 115-118: the nodes whose dependency set is empty.
TerminalNodeSet(d, nodes) == {node \in nodes : DefaultGet(d, node) = {}}

\* Line 132: node_to_num_dependencies_met[n] < len(edge_dictionary[n])
NotReadyOffByOne(met, deps) == met < Cardinality(deps) - 1
NotReady(met, deps) == met < Cardinality(deps)

\* Line 138, over the whole inner loop: frontier.add(dependant_node)
FrontierAfterPlaceReplace(f, dependants) == dependants
FrontierAfterPlace(f, dependants) == f \cup dependants

\* Line 139: node_to_num_dependencies_met[dependant_node] += 1
IncrementMetForgotten(met) == met
IncrementMet(met) == met + 1

\* Line 137: inverted_edge_dict[current_node] is a defaultdict lookup.
InvertedAfterLookupConsume(inv, node) ==
    IF node \in DOMAIN inv THEN [inv EXCEPT ![node] = {}] ELSE inv
InvertedAfterLookup(inv, node) == DefaultTouch(inv, node)

\* Lines 144-148: None unless every node was added.
ReturnValueAny(is_added, ordering) ==
    IF \A n \in DOMAIN is_added : ~is_added[n] THEN None ELSE List(ordering)
ReturnValue(is_added, ordering) ==
    IF ~(\A n \in DOMAIN is_added : is_added[n]) THEN None ELSE List(ordering)

\* Line 61
is_graph_acyclic_toplogical(result) == result # None

\* Lines 106-128: everything topological_sort sets up before the loop.
TopoCall ==
    /\ pc = "between"
    /\ LET ref == WrapRef(edge_dictionary)
           h == [r \in {"caller", "local"} |-> heap["caller"]]
           nodes == edge_dict_to_node_set(h[ref])
       IN /\ edge_dictionary' = ref
          /\ inverted_edge_dict' = invert_edge_dict(h[ref])
          /\ all_nodes_set' = nodes
          /\ frontier' = TerminalNodeSet(h[ref], nodes)
          /\ heap' = [h EXCEPT ![ref] = DefaultTouchAll(@, nodes)]
          /\ node_to_is_added' = [node \in nodes |-> FALSE]
          /\ node_to_num_dependencies_met' = [node \in nodes |-> 0]
    /\ sorted_ordering' = <<>>
    /\ current_node' = {}
    /\ pc' = "sort"
    /\ UNCHANGED <<graph0, sort_result>>
    /\ UNCHANGED dfsVars

\* Lines 130-133: the popped node still waits for a dependency.
TopoDiscard ==
    /\ pc = "sort"
    /\ \E node \in frontier :
          /\ NotReady(node_to_num_dependencies_met[node],
                      DefaultGet(ED, node))
          /\ frontier' = frontier \ {node}
          /\ heap' = [heap EXCEPT ![edge_dictionary] =
                         DefaultTouch(@, node)]
          /\ current_node' = {node}
    /\ UNCHANGED <<graph0, edge_dictionary, pc, all_nodes_set,
                   sorted_ordering, inverted_edge_dict, node_to_is_added,
                   node_to_num_dependencies_met, sort_result>>
    /\ UNCHANGED dfsVars

\* Lines 130-141: the popped node is appended and its dependants notified.
TopoPlace ==
    /\ pc = "sort"
    /\ \E node \in frontier :
          LET dependants == DefaultGet(inverted_edge_dict, node)
          IN /\ ~NotReady(node_to_num_dependencies_met[node],
                          DefaultGet(ED, node))
             /\ heap' = [heap EXCEPT ![edge_dictionary] =
                            DefaultTouch(@, node)]
             /\ sorted_ordering' = Append(sorted_ordering, node)
             /\ inverted_edge_dict' =
                    InvertedAfterLookup(inverted_edge_dict, node)
             /\ frontier' =
                    FrontierAfterPlace(frontier \ {node}, dependants)
             /\ node_to_num_dependencies_met' =
                    [n \in DOMAIN node_to_num_dependencies_met |->
                        IF n \in dependants
                        THEN IncrementMet(node_to_num_dependencies_met[n])
                        ELSE node_to_num_dependencies_met[n]]
             /\ node_to_is_added' =
                    [node_to_is_added EXCEPT ![node] = TRUE]
             /\ current_node' = {node}
    /\ UNCHANGED <<graph0, edge_dictionary, pc, all_nodes_set, sort_result>>
    /\ UNCHANGED dfsVars

\* Lines 143-148, and the end of the call.
TopoReturn ==
    /\ pc = "sort"
    /\ frontier = {}
    /\ sort_result' = ReturnValue(node_to_is_added, sorted_ordering)
    /\ pc' = "done"
    /\ heap' = HeapAfterReturn(heap)
    /\ edge_dictionary' = "caller"
    /\ all_nodes_set' = {}
    /\ sorted_ordering' = <<>>
    /\ inverted_edge_dict' = EmptyDict
    /\ node_to_is_added' = EmptyDict
    /\ node_to_num_dependencies_met' = EmptyDict
    /\ current_node' = {}
    /\ UNCHANGED <<graph0, frontier>>
    /\ UNCHANGED dfsVars

TopoNext ==
    \/ TopoCall
    \/ TopoDiscard
    \/ TopoPlace
    \/ TopoReturn

Next == DFSNext \/ TopoNext
Spec == Init /\ [][Next]_vars

\* The code is sequential and every step of it is taken: a call that can
\* take a step does.
FairSpec == Spec /\ WF_vars(Next)

\* The DFS predicate alone, and the sort alone, each running to its return.
DFSFairSpec == Init /\ [][DFSNext]_vars /\ WF_vars(DFSNext)
SortFairSpec == SortInit /\ [][TopoNext]_vars /\ WF_vars(TopoNext)

----------------------------------------------------------------------------
(* What the properties are stated in terms of *)

\* The derived Node Set of a graph: all keys and all members of all values.
NodeSetOf(g) == (DOMAIN g) \cup UNION {g[k] : k \in DOMAIN g}

\* The dependency set of a node, empty for a node that is not a key.
DepsOf(g, n) == IF n \in DOMAIN g THEN g[n] ELSE {}

RECURSIVE Grow(_, _)
Grow(g, S) ==
    LET S2 == S \cup UNION {DepsOf(g, n) : n \in S}
    IN IF S2 = S THEN S ELSE Grow(g, S2)

\* The nodes reachable from n along one or more dependency edges.
ReachPlus(g, n) == Grow(g, DepsOf(g, n))

Cyclic(g) == \E n \in NodeSetOf(g) : n \in ReachPlus(g, n)

Range(seq) == {seq[i] : i \in 1 .. Len(seq)}
Positions(seq, n) == {i \in 1 .. Len(seq) : seq[i] = n}

\* n is a key of g with an empty dependency set / only a dependency target.
HasEmptyKey(g) == \E n \in DOMAIN g : g[n] = {}
HasTargetOnly(g) == NodeSetOf(g) # DOMAIN g
HasSelfLoop(g) == \E n \in DOMAIN g : n \in g[n]

----------------------------------------------------------------------------
\* C1: once both predicates have returned for the same graph, the DFS
\* predicate and the topological-sort predicate gave the same boolean,
\* whatever orders the frontier pops and the DFS iterations took.
C1_PredicatesAgree ==
    pc = "done" => dfs_result = is_graph_acyclic_toplogical(sort_result)

C1_Witness ==
    /\ pc = "done"
    /\ HasSelfLoop(graph0) /\ HasTargetOnly(graph0) /\ HasEmptyKey(graph0)
    /\ ~dfs_result

\* C2: for an acyclic graph topological_sort returns a list (not None) in
\* which every node of the Node Set occurs exactly once and nothing else
\* occurs, so its length is the Node Set's cardinality.
C2_OrderingIsPermutation ==
    (pc = "done" /\ ~Cyclic(graph0)) =>
        /\ sort_result.kind = "list"
        /\ Len(sort_result.ordering) = Cardinality(NodeSetOf(graph0))
        /\ Range(sort_result.ordering) = NodeSetOf(graph0)
        /\ \A n \in NodeSetOf(graph0) :
              Cardinality(Positions(sort_result.ordering, n)) = 1

C2_Witness ==
    /\ pc = "done" /\ ~Cyclic(graph0)
    /\ Cardinality(NodeSetOf(graph0)) = MaxNodes
    /\ HasTargetOnly(graph0)
    /\ Len(sort_result.ordering) = MaxNodes

\* C3: in the loop a node is in the ordering only behind all members of its
\* dependency set, and in the list returned for an acyclic graph every edge
\* (A depends on B) has B at a strictly smaller index than A.
DepsPrecede(seq, g) ==
    \A i \in 1 .. Len(seq) :
        \A b \in DepsOf(g, seq[i]) : \E j \in 1 .. (i - 1) : seq[j] = b

C3_DependenciesFirst ==
    /\ pc = "sort" => DepsPrecede(sorted_ordering, graph0)
    /\ (pc = "done" /\ ~Cyclic(graph0)) =>
          \A a \in DOMAIN graph0 : \A b \in graph0[a] :
              /\ Positions(sort_result.ordering, a) # {}
              /\ Positions(sort_result.ordering, b) # {}
              /\ \A i \in Positions(sort_result.ordering, a) :
                    \A j \in Positions(sort_result.ordering, b) : j < i

C3_Witness ==
    /\ pc = "done" /\ ~Cyclic(graph0)
    /\ \E a \in DOMAIN graph0 : Cardinality(graph0[a]) >= 2
    /\ sort_result.kind = "list"

\* C4: for a graph with a cycle topological_sort returns None, with no
\* ordering, and the predicate built on it returns False.
C4_CycleGivesNone ==
    (pc = "done" /\ Cyclic(graph0)) =>
        /\ sort_result = None
        /\ ~is_graph_acyclic_toplogical(sort_result)

\* A cycle next to nodes the loop did place.
C4_Witness ==
    /\ pc = "done" /\ Cyclic(graph0)
    /\ \E n \in NodeSetOf(graph0) : DepsOf(graph0, n) = {}
    /\ \E n \in NodeSetOf(graph0) : n \notin ReachPlus(graph0, n)
                                    /\ DepsOf(graph0, n) # {}
    /\ sort_result = None

\* C5: is_graph_acylic_DFS returns True exactly when no node of the Node
\* Set reaches itself along one or more dependency edges; every search it
\* starts begins at a node of the Node Set with an empty active-path set.
C5_DFSDecidesCycles ==
    /\ DFSReturned => (dfs_result <=> ~Cyclic(graph0))
    /\ (pc = "dfs" /\ Len(stack) = 1 /\ ~stack[1].body) =>
          /\ set_seen_so_far = {}
          /\ stack[1].node \in NodeSetOf(graph0)

C5_Witness ==
    /\ pc = "between"
    /\ graph0 = (0 :> {0})
    /\ ~dfs_result

\* C6: the caller's dictionary has, at every point of both calls and after
\* them, the keys and dependency sets it had before.
C6_CallerGraphUntouched ==
    heap["caller"] = graph0

\* The call's own copy has gained a key for a node that is not a key of the
\* caller's dictionary.
C6_Witness ==
    /\ "local" \in DOMAIN heap
    /\ DOMAIN heap["local"] # DOMAIN graph0
    /\ heap["caller"] = graph0

\* C7 as stated: throughout the frontier loop the inverted dictionary has
\* exactly the keys and values invert_edge_dict returned.
C7_Original ==
    pc = "sort" => inverted_edge_dict = invert_edge_dict(graph0)

\* C7 as amended: throughout the frontier loop the default-to-empty lookup
\* of every node in the inverted dictionary gives what it gave when
\* invert_edge_dict returned; no key is removed, and the only keys added are
\* placed nodes without incoming edges, mapped to the empty set.
C7_InvertedLookupsStable ==
    pc = "sort" =>
        LET inv0 == invert_edge_dict(graph0)
        IN /\ \A n \in Nodes :
                 DefaultGet(inverted_edge_dict, n) = DefaultGet(inv0, n)
           /\ DOMAIN inv0 \subseteq DOMAIN inverted_edge_dict
           /\ (DOMAIN inverted_edge_dict) \ (DOMAIN inv0)
                 \subseteq Range(sorted_ordering)

C7_Witness ==
    /\ pc = "sort"
    /\ (DOMAIN inverted_edge_dict) \ DOMAIN invert_edge_dict(graph0) # {}
    /\ \E n \in Range(sorted_ordering) : DefaultGet(inverted_edge_dict, n) # {}

\* C8: at the head of every loop iteration and at loop exit each node's
\* counter is the number of members of its dependency set that are in the
\* ordering, so it is at most the size of that set, and no node is in the
\* ordering twice.
C8_CounterCountsPlaced ==
    pc = "sort" =>
        /\ \A n \in all_nodes_set :
              /\ node_to_num_dependencies_met[n] =
                    Cardinality(DepsOf(graph0, n) \cap Range(sorted_ordering))
              /\ node_to_num_dependencies_met[n]
                    <= Cardinality(DepsOf(graph0, n))
        /\ \A n \in Nodes : Cardinality(Positions(sorted_ordering, n)) <= 1
        /\ sorted_ordering = <<>> =>
              \A n \in all_nodes_set : node_to_num_dependencies_met[n] = 0

\* Loop exit on a cyclic graph: a counter stuck strictly between zero and
\* the size of the dependency set.
C8_Witness ==
    /\ pc = "sort" /\ frontier = {}
    /\ \E n \in all_nodes_set :
          /\ node_to_num_dependencies_met[n] > 0
          /\ node_to_num_dependencies_met[n] < Cardinality(DepsOf(graph0, n))

\* C9: a node popped before all its dependencies are met is dropped with
\* the ordering, the counters and the marks unchanged; a node popped with
\* all of them met is appended; a node not yet placed whose dependencies are
\* all placed is in the frontier and stays waiting until it is placed; and
\* the loop ends, so such a node is placed before it does.
AllDepsPlaced(n) == DepsOf(graph0, n) \subseteq Range(sorted_ordering)
Waiting(n) ==
    /\ pc = "sort" /\ n \in all_nodes_set
    /\ ~node_to_is_added[n] /\ AllDepsPlaced(n)
Placed(n) ==
    /\ pc = "sort" /\ n \in all_nodes_set
    /\ node_to_is_added[n] /\ n \in Range(sorted_ordering)

PopStep(n) == pc = "sort" /\ pc' = "sort" /\ n \in frontier
                 /\ current_node' = {n} /\ frontier' # frontier

C9_PopEffect ==
    \A n \in Nodes :
        /\ (PopStep(n) /\ node_to_num_dependencies_met[n]
                              < Cardinality(DepsOf(graph0, n)))
              => /\ UNCHANGED <<sorted_ordering, node_to_is_added,
                                node_to_num_dependencies_met>>
                 /\ frontier' = frontier \ {n}
        /\ (PopStep(n) /\ Waiting(n))
              => sorted_ordering' = Append(sorted_ordering, n)
        /\ Waiting(n) => (Waiting(n)' \/ Placed(n)')

C9_ReadyNodesGetPlaced ==
    /\ [][C9_PopEffect]_vars
    /\ [](\A n \in Nodes : Waiting(n) => n \in frontier)
    /\ (pc = "sort") ~> (pc = "done")

\* A node that was dropped once is back in the frontier, now ready.
C9_Witness ==
    /\ pc = "sort"
    /\ \E n \in frontier :
          /\ Waiting(n)
          /\ Cardinality(DepsOf(graph0, n)) >= 2
          /\ current_node # {n}
          /\ Len(sorted_ordering) >= 2

\* C10: while no cycle has been found the active-path set is exactly the
\* set of nodes of the frames that passed the entry check, these nodes are
\* distinct and each frame's node is a dependency of the one beneath it; a
\* call on a node in the set returns False without recursing; the call chain
\* never has more than |Node Set| + 1 frames; and the DFS returns.
BodyFrames == {i \in 1 .. Len(stack) : stack[i].body}

C10_ChainShape ==
    pc = "dfs" =>
        /\ Len(stack) <= Cardinality(NodeSetOf(graph0)) + 1
        /\ \A i \in 1 .. (Len(stack) - 1) :
              /\ stack[i].body
              /\ stack[i + 1].node \in DepsOf(graph0, stack[i].node)
        /\ ~unwinding =>
              /\ set_seen_so_far = {stack[i].node : i \in BodyFrames}
              /\ Cardinality(set_seen_so_far) = Cardinality(BodyFrames)

C10_RepeatReturnsFalse ==
    (pc = "dfs" /\ ~unwinding /\ stack # <<>> /\ ~Top.body
        /\ Top.node \in set_seen_so_far)
    => (stack' = Pop(stack) /\ unwinding' /\ UNCHANGED set_seen_so_far)

====
